---- MODULE Spec2Model ----
(***************************************************************************)
(* Model of src/src/utils.rs of simple-irc-server: the wildcard matcher,   *)
(* the identifier validators, the MODE grammar validators and the line     *)
(* codec.                                                                  *)
(*                                                                         *)
(* Strings are sequences of one-character strings, so that "a*b" is       *)
(* <<"a", "*", "b">> and the empty string is <<>>.  A Rust slice          *)
(* &s[i..j] is SubSeq(s, i+1, j).                                          *)
(***************************************************************************)
EXTENDS Integers, Sequences, FiniteSets, TLC

VARIABLES
    \* ---- match_wildcard(pattern, text) ----
    pattern,          \* argument `pattern`
    text,             \* argument `text`
    pat,              \* local `pat`: the part of the pattern not yet handled
    t,                \* local `t`: the part of the text not yet consumed
    asterisk,         \* local `asterisk`
    overflow_checks,  \* build setting: TRUE = arithmetic overflow panics (debug),
                      \* FALSE = arithmetic wraps (release)
    wpc,              \* "idle" | "loop" | "done"
    wres,             \* "none" | "true" | "false" | "panic"
    \* ---- identifier validators ----
    id_s,             \* the string handed to the validator
    id_fn,            \* "none" | name of the validator that was called
    id_res,           \* "none" | what the call returned: "Ok", "Err" or the
                      \* ValidationError message; "true" or "false"; a string;
                      \* after several calls the tuple of their results
    \* ---- validate_usermodes / validate_channelmodes ----
    vfn,              \* "none" | "user" | "chan": which validator runs
    target,           \* argument `target` (channel validator)
    mpc,              \* "idle" | "pairs" (modes.iter() loop) | "chars" (ms.chars() loop) | "done"
    pair_no,          \* number of pairs modes.iter() has yielded so far
    ms_empty,         \* ms.is_empty() of the current pair
    ms_pos,           \* number of characters ms.chars() has yielded so far
    last_c,           \* the character `c` of the last closure call ("" = none)
    margs,            \* `margs` of the current pair
    margs_it,         \* `margs_it`: number of arguments already taken by next()
    mode_set,         \* local `mode_set`
    param_idx,        \* local `param_idx`
    arg_param_idx,    \* local `arg_param_idx`
    mres,             \* the Result: Running, OkRes or an error record
    \* ---- history of the call, for stating the claims ----
    ms_foreign,       \* user validator: the flag-string of the current pair has a
                      \* character outside the user-mode alphabet
    seen_params,      \* parameters (flag-strings and arguments) of all pairs yielded so far
    consumed_idx,     \* 1 + sum over finished pairs of (arguments taken by next() + 1)
    last_sign,        \* last sign character of the current flag-string: "none" | "+" | "-"
    nfail,            \* number of closure calls that produced an error
    first_err,        \* the error of the first closure call that produced one
    \* ---- IRCLinesCodec ----
    max_length,       \* field `max_length` of the wrapped LinesCodec
    next_index,       \* field `next_index` of the wrapped LinesCodec
    is_discarding,    \* field `is_discarding` of the wrapped LinesCodec
    buf,              \* the BytesMut handed to encode and decode
    dres,             \* what decode returned last, NoResult when bytes arrived since
    \* ---- the codec's environment and history ----
    stream,           \* all bytes the peer sends
    fed,              \* number of bytes of `stream` already appended to `buf`
    sent,             \* the lines handed to encode
    decoded,          \* the lines decode has returned, in order
    too_long          \* number of times decode returned MaxLineLengthExceeded

wvars == <<pattern, text, pat, t, asterisk, overflow_checks, wpc, wres>>
ivars == <<id_s, id_fn, id_res>>
mvars == <<vfn, target, mpc, pair_no, ms_empty, ms_foreign, ms_pos, last_c, margs, margs_it,
           mode_set, param_idx, arg_param_idx, mres,
           seen_params, consumed_idx, last_sign, nfail, first_err>>
cvars == <<max_length, next_index, is_discarding, buf, dres,
           stream, fed, sent, decoded, too_long>>
vars == <<wvars, ivars, mvars, cvars>>

---------------------------------------------------------------------------
(* Bounds of the model.                                                    *)
MaxPatLen == 4
MaxTextLen == 3
MaxIdentLen == 3
MaxPairs == 2
MaxFlagLen == 3
MaxArgs == 2
MaxLength == 2
MaxStream == 6

\* All strings over alphabet A of length at most n.
Strs(A, n) == UNION { [1..k -> A] : k \in 0..n }

---------------------------------------------------------------------------
(* Rust string primitives.                                                 *)

\* &s[i..]
SliceFrom(s, i) == SubSeq(s, i + 1, Len(s))

\* &s[..i]
SliceTo(s, i) == SubSeq(s, 1, i)

\* s.contains(ch)
Contains(s, ch) == \E i \in 1..Len(s) : s[i] = ch

\* s.find(ch): the 0-based index of the first occurrence, -1 for None.
Find(s, ch) ==
    IF Contains(s, ch)
    THEN (CHOOSE i \in 1..Len(s) : s[i] = ch /\ \A j \in 1..(i - 1) : s[j] # ch) - 1
    ELSE -1

\* usize is modelled with 30 bits (TLC's integers have 32): a wrapped
\* difference is far beyond every string length of the model, as it is
\* with the 32 or 64 bits of a real target.
UsizeModulus == 2 ^ 30

\* a - b on usize.  With overflow checks an underflow panics; without them
\* the difference wraps.
UsizeSub(a, b, checks) ==
    IF a >= b THEN [panic |-> FALSE, val |-> a - b]
    ELSE IF checks THEN [panic |-> TRUE, val |-> 0]
    ELSE [panic |-> FALSE, val |-> (a - b) + UsizeModulus]

---------------------------------------------------------------------------
(* match_wildcard                                                          *)

WildChars == {"a", "b", "?", "*"}
TextChars == {"a", "b"}

starts_single_wilcards(p, txt) ==
    IF Len(p) <= Len(txt)
    THEN \A i \in 1..Len(p) : p[i] = "?" \/ p[i] = txt[i]
    ELSE FALSE

\* The inner loop
\*   while i <= bound && !starts_single_wilcards(m, &t[i..]) { i += 1; }
\* &t[i..] panics when i > t.len().
RECURSIVE ScanLoop(_, _, _, _)
ScanLoop(m, txt, i, bound) ==
    IF i > bound THEN [panic |-> FALSE, i |-> i]
    ELSE IF i > Len(txt) THEN [panic |-> TRUE, i |-> i]
    ELSE IF starts_single_wilcards(m, SliceFrom(txt, i)) THEN [panic |-> FALSE, i |-> i]
    ELSE ScanLoop(m, txt, i + 1, bound)

WildCont(newpat, newt) == [out |-> "cont", pat |-> newpat, t |-> newt]
WildStop(res) == [out |-> res, pat |-> <<>>, t |-> <<>>]

\* One iteration of the body of `while !pat.is_empty()`.
WildBody(cpat, ct, ast, checks) ==
    LET i == Find(cpat, "*")
        newpat == IF i >= 0 THEN SliceFrom(cpat, i + 1) ELSE <<>>
        m == IF i >= 0 THEN SliceTo(cpat, i) ELSE cpat
        cur_ast == i >= 0
        d == UsizeSub(Len(ct), Len(m), checks)
    IN  IF m = <<>> THEN WildCont(newpat, ct)
        ELSE IF ~ast THEN
            IF ~starts_single_wilcards(m, ct) THEN WildStop("false")
            ELSE WildCont(newpat, SliceFrom(ct, Len(m)))
        ELSE IF cur_ast \/ Len(newpat) # 0 THEN
            IF d.panic THEN WildStop("panic")
            ELSE LET r == ScanLoop(m, ct, 0, d.val)
                 IN  IF r.panic THEN WildStop("panic")
                     ELSE IF r.i <= d.val THEN WildCont(newpat, SliceFrom(ct, r.i + Len(m)))
                     ELSE WildStop("false")
        ELSE
            IF d.panic \/ d.val > Len(ct) THEN WildStop("panic")
            ELSE IF ~starts_single_wilcards(m, SliceFrom(ct, d.val)) THEN WildStop("false")
            ELSE WildCont(newpat, <<>>)

\* Faulty variant of WildFinal: a trailing '*' of the pattern is not honoured.
WildFinalTextOnly(p, ct) == ct = <<>>

\* The final expression of match_wildcard.
WildFinal(p, ct) == (p # <<>> /\ p[Len(p)] = "*") \/ ct = <<>>

BoolStr(b) == IF b THEN "true" ELSE "false"

WildIdle ==
    /\ pattern = <<>> /\ text = <<>> /\ pat = <<>> /\ t = <<>>
    /\ asterisk = FALSE /\ overflow_checks = FALSE
    /\ wpc = "idle" /\ wres = "none"

\* The call match_wildcard(pattern, text), at the top of the while loop.
InitWildVars ==
    /\ pattern \in Strs(WildChars, MaxPatLen)
    /\ text \in Strs(TextChars, MaxTextLen)
    /\ overflow_checks \in BOOLEAN
    /\ pat = pattern
    /\ t = text
    /\ asterisk = FALSE
    /\ wpc = "loop"
    /\ wres = "none"

WildLoop ==
    /\ wpc = "loop"
    /\ pat # <<>>
    /\ LET b == WildBody(pat, t, asterisk, overflow_checks)
       IN  IF b.out = "cont"
           THEN /\ pat' = b.pat
                /\ t' = b.t
                /\ asterisk' = TRUE
                /\ UNCHANGED <<wpc, wres>>
           ELSE /\ wres' = b.out
                /\ wpc' = "done"
                /\ UNCHANGED <<pat, t, asterisk>>
    /\ UNCHANGED <<pattern, text, overflow_checks>>
    /\ UNCHANGED <<ivars, mvars, cvars>>

WildReturn ==
    /\ wpc = "loop"
    /\ pat = <<>>
    /\ wres' = BoolStr(WildFinal(pattern, t))
    /\ wpc' = "done"
    /\ UNCHANGED <<pattern, text, overflow_checks, pat, t, asterisk>>
    /\ UNCHANGED <<ivars, mvars, cvars>>

\* Reference glob matcher: '?' one character, '*' zero or more.
RECURSIVE Glob(_, _)
Glob(p, s) ==
    IF p = <<>> THEN s = <<>>
    ELSE IF Head(p) = "*"
         THEN Glob(Tail(p), s) \/ (s # <<>> /\ Glob(p, Tail(s)))
         ELSE s # <<>> /\ (Head(p) = "?" \/ Head(p) = Head(s)) /\ Glob(Tail(p), Tail(s))

---------------------------------------------------------------------------
(* Identifier validators                                                   *)

IdentChars == {"a", "#", "&", ".", ":", ",", "~", "@", "%", "+", "*", "!"}

MsgChannelPrefix == "Username must not have channel prefix."
MsgBadChars == "Username must not contains '.', ',' or ':'."

\* Faulty variant of validate_username: a channel prefix is not looked for.
validate_username_prefix(username) ==
    IF ~Contains(username, ".") /\ ~Contains(username, ":") /\ ~Contains(username, ",")
    THEN "Ok"
    ELSE MsgBadChars

\* validate_username: "Ok" for Ok(()), else the message of the ValidationError.
validate_username(username) ==
    IF username # <<>> /\ (username[1] = "#" \/ username[1] = "&")
    THEN MsgChannelPrefix
    ELSE IF ~Contains(username, ".") /\ ~Contains(username, ":") /\ ~Contains(username, ",")
         THEN "Ok"
         ELSE MsgBadChars

IdentIdle == id_s = <<>> /\ id_fn = "none" /\ id_res = "none"

InitIdentVars ==
    /\ id_s \in Strs(IdentChars, MaxIdentLen)
    /\ id_fn = "none"
    /\ id_res = "none"

CallValidateUsername ==
    /\ id_fn = "none"
    /\ id_fn' = "validate_username"
    /\ id_res' = validate_username(id_s)
    /\ UNCHANGED id_s
    /\ UNCHANGED <<wvars, mvars, cvars>>

MsgChannel ==
    "Channel name must have '#' or '&' at start and must not contains ',' or ':'."

\* Faulty variant of validate_channel: a ',' in the name is not looked for.
validate_channel_comma(channel) ==
    IF channel # <<>> /\ ~Contains(channel, ":")
       /\ (channel[1] = "#" \/ channel[1] = "&")
    THEN "Ok"
    ELSE MsgChannel

\* validate_channel: "Ok" for Ok(()), else the message of the ValidationError.
validate_channel(channel) ==
    IF channel # <<>> /\ ~Contains(channel, ":") /\ ~Contains(channel, ",")
       /\ (channel[1] = "#" \/ channel[1] = "&")
    THEN "Ok"
    ELSE MsgChannel

CallValidateChannel ==
    /\ id_fn = "none"
    /\ id_fn' = "validate_channel"
    /\ id_res' = validate_channel(id_s)
    /\ UNCHANGED id_s
    /\ UNCHANGED <<wvars, mvars, cvars>>

\* Faulty variant of validate_source: the positions are compared the other
\* way round.
validate_source_swapped(s) ==
    IF Contains(s, ":") THEN "false"
    ELSE LET excl == Find(s, "!")
             atchar == Find(s, "@")
         IN  IF excl # -1 /\ atchar # -1 THEN BoolStr(atchar < excl) ELSE "true"

\* validate_source: "true" or "false".
validate_source(s) ==
    IF Contains(s, ":") THEN "false"
    ELSE LET excl == Find(s, "!")
             atchar == Find(s, "@")
         IN  IF excl # -1 /\ atchar # -1 THEN BoolStr(excl < atchar) ELSE "true"

CallValidateSource ==
    /\ id_fn = "none"
    /\ id_fn' = "validate_source"
    /\ id_res' = validate_source(id_s)
    /\ UNCHANGED id_s
    /\ UNCHANGED <<wvars, mvars, cvars>>

\* The for loop of validate_prefixed_channel from the 0-based index i on, with
\* the value of `last_amp` at that point; the result is the final `is_channel`.
RECURSIVE PrefixScan(_, _, _)
PrefixScan(channel, i, last_amp) ==
    IF i >= Len(channel) THEN FALSE
    ELSE LET c == channel[i + 1]
         IN  IF c \in {"~", "@", "%", "+"} THEN PrefixScan(channel, i + 1, c = "&")
             ELSE IF c = "&" THEN PrefixScan(channel, i + 1, c = "&")
             ELSE IF c = "#" THEN i + 1 < Len(channel)
             ELSE last_amp

\* Faulty variant of validate_prefixed_channel: `last_amp` starts as true.
validate_prefixed_channel_amp(channel) ==
    IF channel # <<>> /\ ~Contains(channel, ":") /\ ~Contains(channel, ",")
    THEN IF PrefixScan(channel, 0, TRUE) THEN "Ok" ELSE "Err"
    ELSE "Err"

\* validate_prefixed_channel: "Ok" for Ok(()), "Err" for Err(e) with the
\* caller's error e.
validate_prefixed_channel(channel) ==
    IF channel # <<>> /\ ~Contains(channel, ":") /\ ~Contains(channel, ",")
    THEN IF PrefixScan(channel, 0, FALSE) THEN "Ok" ELSE "Err"
    ELSE "Err"

CallValidatePrefixedChannel ==
    /\ id_fn = "none"
    /\ id_fn' = "validate_prefixed_channel"
    /\ id_res' = validate_prefixed_channel(id_s)
    /\ UNCHANGED id_s
    /\ UNCHANGED <<wvars, mvars, cvars>>

\* Faulty variant of normalize_sourcemask: "@*" is appended to every mask
\* that has a '!'.
normalize_sourcemask_append(mask) ==
    LET p == Find(mask, "!")
        p2 == Find(mask, "@")
    IN  IF p # -1 THEN mask \o <<"@", "*">>
        ELSE IF p2 # -1 THEN SliceTo(mask, p2) \o <<"!", "*">> \o SliceFrom(mask, p2)
        ELSE mask \o <<"!", "*", "@", "*">>

\* Faulty variant of normalize_sourcemask: "!*" is put behind the '@'.
normalize_sourcemask_behind(mask) ==
    LET p == Find(mask, "!")
        p2 == Find(mask, "@")
    IN  IF p # -1
        THEN IF Find(SliceFrom(mask, p + 1), "@") = -1
             THEN mask \o <<"@", "*">>
             ELSE mask
        ELSE IF p2 # -1
             THEN SliceTo(mask, p2 + 1) \o <<"!", "*">> \o SliceFrom(mask, p2 + 1)
        ELSE mask \o <<"!", "*", "@", "*">>

\* normalize_sourcemask: the String `out`.
normalize_sourcemask(mask) ==
    LET p == Find(mask, "!")
        p2 == Find(mask, "@")
    IN  IF p # -1
        THEN IF Find(SliceFrom(mask, p + 1), "@") = -1
             THEN mask \o <<"@", "*">>
             ELSE mask
        ELSE IF p2 # -1 THEN SliceTo(mask, p2) \o <<"!", "*">> \o SliceFrom(mask, p2)
        ELSE mask \o <<"!", "*", "@", "*">>

CallNormalizeSourcemask ==
    /\ id_fn = "none"
    /\ id_fn' = "normalize_sourcemask"
    /\ id_res' = normalize_sourcemask(id_s)
    /\ UNCHANGED id_s
    /\ UNCHANGED <<wvars, mvars, cvars>>

\* normalize_sourcemask is called on the String the previous call returned.
CallNormalizeResult ==
    /\ id_fn = "normalize_sourcemask"
    /\ id_fn' = "normalize_sourcemask of result"
    /\ id_s' = id_res
    /\ id_res' = normalize_sourcemask(id_res)
    /\ UNCHANGED <<wvars, mvars, cvars>>

\* A caller that has called validate_username calls validate_channel on the
\* same string; id_res holds both results.
CallValidateChannelToo ==
    /\ id_fn = "validate_username"
    /\ id_fn' = "validate_username, validate_channel"
    /\ id_res' = <<id_res, validate_channel(id_s)>>
    /\ UNCHANGED id_s
    /\ UNCHANGED <<wvars, mvars, cvars>>

\* A caller that has called validate_source normalises the same mask; id_res
\* holds both results.
CallNormalizeToo ==
    /\ id_fn = "validate_source"
    /\ id_fn' = "validate_source, normalize_sourcemask"
    /\ id_res' = <<id_res, normalize_sourcemask(id_s)>>
    /\ UNCHANGED id_s
    /\ UNCHANGED <<wvars, mvars, cvars>>

\* ... and then calls validate_source on the normalised mask; id_res holds
\* the three results.
CallValidateNormalized ==
    /\ id_fn = "validate_source, normalize_sourcemask"
    /\ id_fn' = "validate_source, normalize_sourcemask, validate_source"
    /\ id_res' = Append(id_res, validate_source(id_res[2]))
    /\ UNCHANGED id_s
    /\ UNCHANGED <<wvars, mvars, cvars>>

---------------------------------------------------------------------------
(* CommandError values and the Result of the MODE validators.  Every       *)
(* result is a record of one shape; the fields a kind does not have hold   *)
(* the defaults of NoErr.                                                  *)

NoErr == [kind |-> "Running", cmd |-> "", idx |-> 0, modechar |-> "", target |-> "",
          param |-> <<>>, description |-> ""]

\* The fold has produced no Err so far.
Running == NoErr

\* Ok(())
OkRes == [NoErr EXCEPT !.kind = "Ok"]

WrongParameter(cmd, idx) == [NoErr EXCEPT !.kind = "WrongParameter", !.cmd = cmd, !.idx = idx]

UnknownUModeFlag(idx) == [NoErr EXCEPT !.kind = "UnknownUModeFlag", !.idx = idx]

UnknownMode(idx, c, tgt) ==
    [NoErr EXCEPT !.kind = "UnknownMode", !.idx = idx, !.modechar = c, !.target = tgt]

InvalidModeParam(tgt, c, param, description) ==
    [NoErr EXCEPT !.kind = "InvalidModeParam", !.target = tgt, !.modechar = c,
                  !.param = param, !.description = description]

\* ValidationError::to_string(), as the tests at lines 516-530 show it.
ValidationErrorToString(code) == "Validation error: " \o code \o " [{}]"

Digits == {"0", "7"}

\* arg.parse::<usize>(): "Ok" or the ParseIntError's text.  A single leading
\* '+' is accepted, '-' is not (usize is unsigned).  "number too large to fit
\* in target type" needs more digits than an argument of this model has.
ParseUsize(arg) ==
    LET digits == IF Len(arg) > 1 /\ arg[1] = "+" THEN Tail(arg) ELSE arg
    IN  IF arg = <<>> THEN "cannot parse integer from empty string"
        ELSE IF \A i \in 1..Len(digits) : digits[i] \in Digits THEN "Ok"
        ELSE "invalid digit found in string"

---------------------------------------------------------------------------
(* validate_usermodes                                                      *)

UserChars == {"+", "-", "i", "o", "O", "r", "w"}
\* The characters a user flag-string is drawn from: the alphabet and one other.
UserInputChars == UserChars \cup {"x"}

\* The user-mode alphabet as the mode grammar states it, and whether a
\* flag-string has a character outside it (recorded as history of the call).
UserModeAlphabet == {"+", "-", "i", "o", "O", "r", "w"}
HasForeign(ms) == \E i \in 1..Len(ms) : ms[i] \notin UserModeAlphabet

\* Faulty variant of UserPairBody: the argument list is looked at before the
\* characters of the flag-string.
UserPairBodyArgsFirst(ms, args, pidx) ==
    IF ms # <<>>
    THEN IF args # <<>>
         THEN [res |-> WrongParameter("MODE", pidx), param_idx |-> pidx]
         ELSE IF \E i \in 1..Len(ms) : ms[i] \notin UserChars
              THEN [res |-> UnknownUModeFlag(pidx), param_idx |-> pidx]
              ELSE [res |-> Running, param_idx |-> pidx + 1]
    ELSE [res |-> WrongParameter("MODE", pidx), param_idx |-> pidx]

\* The closure of validate_usermodes for one pair (ms, args).
UserPairBody(ms, args, pidx) ==
    IF ms # <<>>
    THEN IF \E i \in 1..Len(ms) : ms[i] \notin UserChars
         THEN [res |-> UnknownUModeFlag(pidx), param_idx |-> pidx]
         ELSE IF args # <<>>
              THEN [res |-> WrongParameter("MODE", pidx), param_idx |-> pidx]
              ELSE [res |-> Running, param_idx |-> pidx + 1]
    ELSE [res |-> WrongParameter("MODE", pidx), param_idx |-> pidx]

---------------------------------------------------------------------------
(* validate_channelmodes                                                   *)

SignChars == {"+", "-"}
ListLetters == {"b", "e", "I"}
UserLetters == {"o", "v", "h", "q", "a"}
FlagLetters == {"i", "m", "t", "n", "s"}
\* The characters a channel flag-string is drawn from: every handled
\* character and one unknown letter.
ModeChars == SignChars \cup ListLetters \cup UserLetters \cup {"l", "k"} \cup FlagLetters \cup {"u"}

Targets == {"#c"}

\* The arguments of a pair: the empty string, a number, a name with ':'.
ArgVals == { <<>>, <<"7">>, <<"x", ":">> }
ArgLists == Strs(ArgVals, MaxArgs)

\* State of the closure over one flag-string, st:
\*   [target, param_idx, margs, margs_it, mode_set, arg_param_idx]
\* Each arm of `match c` returns the Result of the closure call and the new
\* values of the locals it may assign.
Arm(res, st) == [res |-> res, margs_it |-> st.margs_it, mode_set |-> st.mode_set,
                 arg_param_idx |-> st.arg_param_idx]

\* margs_it.next() returned Some(_)
HasNext(st) == st.margs_it < Len(st.margs)
\* the argument margs_it.next() returns
NextArg(st) == st.margs[st.margs_it + 1]
\* margs_it after next(): the slice iterator stays at the end once exhausted
Advance(st) == IF HasNext(st) THEN st.margs_it + 1 ELSE st.margs_it

\* Faulty variant of ArmSign: '-' sets mode_set like '+'.
ArmSignBothSet(c, st) == [Arm(Running, st) EXCEPT !.mode_set = TRUE]

\* '+' => { mode_set = true; }   '-' => { mode_set = false; }
ArmSign(c, st) == [Arm(Running, st) EXCEPT !.mode_set = (c = "+")]

\* Faulty variant of ArmList: the argument is not taken from the iterator.
ArmListPeek(c, st) ==
    [Arm(Running, st) EXCEPT !.arg_param_idx = st.arg_param_idx + 1]

\* 'b'|'e'|'I'
ArmList(c, st) ==
    [Arm(Running, st) EXCEPT !.margs_it = Advance(st),
                             !.arg_param_idx = st.arg_param_idx + 1]

\* Faulty variant of ArmUser: the argument is taken but not validated.
ArmUserUnchecked(c, st) ==
    IF HasNext(st)
    THEN [Arm(Running, st) EXCEPT !.margs_it = Advance(st),
                                  !.arg_param_idx = st.arg_param_idx + 1]
    ELSE Arm(InvalidModeParam(st.target, c, <<>>, "No argument"), st)

\* 'o'|'v'|'h'|'q'|'a'
ArmUser(c, st) ==
    IF HasNext(st)
    THEN IF validate_username(NextArg(st)) = "Ok"
         THEN [Arm(Running, st) EXCEPT !.margs_it = Advance(st),
                                       !.arg_param_idx = st.arg_param_idx + 1]
         ELSE [Arm(InvalidModeParam(st.target, c, NextArg(st),
                       ValidationErrorToString(validate_username(NextArg(st)))), st)
                   EXCEPT !.margs_it = Advance(st)]
    ELSE Arm(InvalidModeParam(st.target, c, <<>>, "No argument"), st)

\* 'l'
ArmLimit(c, st) ==
    IF st.mode_set
    THEN IF HasNext(st)
         THEN IF ParseUsize(NextArg(st)) # "Ok"
              THEN [Arm(InvalidModeParam(st.target, c, NextArg(st),
                            ParseUsize(NextArg(st))), st)
                        EXCEPT !.margs_it = Advance(st)]
              ELSE [Arm(Running, st) EXCEPT !.margs_it = Advance(st),
                                            !.arg_param_idx = st.arg_param_idx + 1]
         ELSE Arm(InvalidModeParam(st.target, c, <<>>, "No argument"), st)
    ELSE IF HasNext(st)
         THEN [Arm(InvalidModeParam(st.target, c, NextArg(st), "Unexpected argument"), st)
                   EXCEPT !.margs_it = Advance(st)]
         ELSE Arm(Running, st)

\* 'k'
ArmKey(c, st) ==
    IF st.mode_set
    THEN IF HasNext(st)
         THEN [Arm(Running, st) EXCEPT !.margs_it = Advance(st),
                                       !.arg_param_idx = st.arg_param_idx + 1]
         ELSE Arm(InvalidModeParam(st.target, c, <<>>, "No argument"), st)
    ELSE IF HasNext(st)
         THEN [Arm(InvalidModeParam(st.target, c, NextArg(st), "Unexpected argument"), st)
                   EXCEPT !.margs_it = Advance(st)]
         ELSE Arm(Running, st)

\* Faulty variant of ArmFlag: an argument that is left is refused.
ArmFlagStrict(c, st) ==
    IF HasNext(st)
    THEN [Arm(InvalidModeParam(st.target, c, NextArg(st), "Unexpected argument"), st)
              EXCEPT !.margs_it = Advance(st)]
    ELSE Arm(Running, st)

\* 'i'|'m'|'t'|'n'|'s' => { }
ArmFlag(c, st) == Arm(Running, st)

\* c => { return Err(UnknownMode(param_idx, c, target.to_string())); }
ArmUnknown(c, st) == Arm(UnknownMode(st.param_idx, c, st.target), st)

\* The closure of ms.chars().try_for_each: `match c`.
ModeCharBody(c, st) ==
    IF c \in SignChars THEN ArmSign(c, st)
    ELSE IF c \in ListLetters THEN ArmList(c, st)
    ELSE IF c \in UserLetters THEN ArmUser(c, st)
    ELSE IF c = "l" THEN ArmLimit(c, st)
    ELSE IF c = "k" THEN ArmKey(c, st)
    ELSE IF c \in FlagLetters THEN ArmFlag(c, st)
    ELSE ArmUnknown(c, st)

\* Faulty variant of NextParamIdx: the index advances by the arguments taken
\* from the iterator instead of by the arguments of the pair.
NextParamIdxConsumed(pidx, args, it, api) == pidx + it + 1

\* Faulty variant of NextParamIdx: param_idx = arg_param_idx.
NextParamIdxFromArg(pidx, args, it, api) == api

\* param_idx += margs.len() + 1;
NextParamIdx(pidx, args, it, api) == pidx + Len(args) + 1

\* Faulty variant of TryNext: for_each, which goes on after an Err.
TryNextContinue(res, cont) == cont

\* try_for_each: an Err ends the fold (and `?` ends the enclosing closure),
\* otherwise the fold goes on at `cont`.
TryNext(res, cont) == IF res = Running THEN cont ELSE "done"

---------------------------------------------------------------------------
(* The two validators as state machines: one step per call of a closure.   *)
(* modes.iter() yields the pairs one by one; of a channel pair the         *)
(* argument list and whether the flag-string is empty are known when the   *)
(* pair is yielded, and ms.chars() yields the characters of a non-empty    *)
(* flag-string one by one, at least one and at most MaxFlagLen.            *)

ModesIdle ==
    /\ vfn = "none" /\ target = "" /\ mpc = "idle" /\ pair_no = 0
    /\ ms_empty = TRUE /\ ms_foreign = FALSE
    /\ ms_pos = 0 /\ last_c = "" /\ margs = <<>> /\ margs_it = 0
    /\ mode_set = FALSE /\ param_idx = 0 /\ arg_param_idx = 0 /\ mres = Running
    /\ seen_params = 0 /\ consumed_idx = 0 /\ last_sign = "none"
    /\ nfail = 0 /\ first_err = NoErr

\* The call, after `let mut param_idx = 1;`.
InitModesVars ==
    /\ \/ vfn = "user" /\ target = ""
       \/ vfn = "chan" /\ target \in Targets
    /\ mpc = "pairs"
    /\ pair_no = 0
    /\ ms_empty = TRUE /\ ms_foreign = FALSE /\ ms_pos = 0 /\ last_c = ""
    /\ margs = <<>> /\ margs_it = 0
    /\ mode_set = FALSE
    /\ param_idx = 1
    /\ arg_param_idx = 0
    /\ mres = Running
    /\ seen_params = 0
    /\ consumed_idx = 1
    /\ last_sign = "none"
    /\ nfail = 0
    /\ first_err = NoErr

\* The outcome `res` of one closure call enters the result and the history.
Outcome(res) ==
    /\ mres' = IF res # Running THEN res ELSE mres
    /\ nfail' = IF res # Running THEN nfail + 1 ELSE nfail
    /\ first_err' = IF res # Running /\ nfail = 0 THEN res ELSE first_err

\* validate_usermodes: the closure runs on the next pair.
UserPair ==
    /\ vfn = "user"
    /\ mpc = "pairs"
    /\ pair_no < MaxPairs
    /\ \E ms \in Strs(UserInputChars, MaxFlagLen), args \in ArgLists :
         LET b == UserPairBody(ms, args, param_idx)
         IN  /\ pair_no' = pair_no + 1
             /\ ms_empty' = (ms = <<>>)
             /\ ms_foreign' = HasForeign(ms)
             /\ margs' = args
             /\ seen_params' = seen_params + 1 + Len(args)
             /\ param_idx' = b.param_idx
             /\ Outcome(b.res)
             /\ mpc' = TryNext(b.res, "pairs")
    /\ UNCHANGED <<vfn, target, ms_pos, last_c, margs_it, mode_set, arg_param_idx,
                   consumed_idx, last_sign>>
    /\ UNCHANGED <<wvars, ivars, cvars>>

\* Faulty variant of ChanEmptyCheck: an empty flag-string is accepted.
ChanEmptyCheckAccepts(empty, pidx) == Running

\* `if !ms.is_empty() { ... } else { Err(WrongParameter(MODEId, param_idx)) }`
ChanEmptyCheck(empty, pidx) == IF ~empty THEN Running ELSE WrongParameter("MODE", pidx)

\* validate_channelmodes: the outer closure starts on the next pair.
ChanBeginPair ==
    /\ vfn = "chan"
    /\ mpc = "pairs"
    /\ pair_no < MaxPairs
    /\ \E empty \in BOOLEAN, args \in ArgLists :
         LET res == ChanEmptyCheck(empty, param_idx)
         IN  /\ pair_no' = pair_no + 1
             /\ ms_empty' = empty
             /\ margs' = args
             /\ seen_params' = seen_params + 1 + Len(args)
             /\ Outcome(res)
             /\ mpc' = IF res = Running THEN "chars" ELSE TryNext(res, "pairs")
    /\ ms_pos' = 0
    /\ last_c' = ""
    /\ last_sign' = "none"
    /\ mode_set' = FALSE
    /\ arg_param_idx' = param_idx + 1
    /\ margs_it' = 0
    /\ UNCHANGED <<vfn, target, ms_foreign, param_idx, consumed_idx>>
    /\ UNCHANGED <<wvars, ivars, cvars>>

\* validate_channelmodes: the inner closure runs on the next character.
ChanChar ==
    /\ vfn = "chan"
    /\ mpc = "chars"
    /\ ms_pos < MaxFlagLen
    /\ \E c \in ModeChars :
         LET st == [target |-> target, param_idx |-> param_idx, margs |-> margs,
                    margs_it |-> margs_it, mode_set |-> mode_set,
                    arg_param_idx |-> arg_param_idx]
             b == ModeCharBody(c, st)
         IN  /\ last_c' = c
             /\ margs_it' = b.margs_it
             /\ mode_set' = b.mode_set
             /\ arg_param_idx' = b.arg_param_idx
             /\ Outcome(b.res)
             /\ mpc' = TryNext(b.res, "chars")
             /\ last_sign' = IF c \in SignChars THEN c ELSE last_sign
    /\ ms_pos' = ms_pos + 1
    /\ UNCHANGED <<vfn, target, pair_no, ms_empty, ms_foreign, margs, param_idx,
                   seen_params, consumed_idx>>
    /\ UNCHANGED <<wvars, ivars, cvars>>

\* validate_channelmodes: the flag-string is scanned; the index advances and
\* the outer closure returns Ok(()), which ends the life of its locals and
\* of its borrowed pair.
ChanEndPair ==
    /\ vfn = "chan"
    /\ mpc = "chars"
    /\ ms_pos >= 1
    /\ param_idx' = NextParamIdx(param_idx, margs, margs_it, arg_param_idx)
    /\ consumed_idx' = consumed_idx + margs_it + 1
    /\ mpc' = "pairs"
    /\ ms_empty' = TRUE /\ ms_pos' = 0 /\ last_c' = "" /\ last_sign' = "none"
    /\ margs' = <<>> /\ margs_it' = 0
    /\ mode_set' = FALSE /\ arg_param_idx' = 0
    /\ UNCHANGED <<vfn, target, pair_no, ms_foreign, mres, seen_params, nfail, first_err>>
    /\ UNCHANGED <<wvars, ivars, cvars>>

\* modes.iter() is exhausted: try_for_each returns Ok(()).
ModesFinish ==
    /\ mpc = "pairs"
    /\ mres' = OkRes
    /\ mpc' = "done"
    /\ UNCHANGED <<vfn, target, pair_no, ms_empty, ms_foreign, ms_pos, last_c, margs,
                   margs_it, mode_set, param_idx, arg_param_idx, seen_params, consumed_idx,
                   last_sign, nfail, first_err>>
    /\ UNCHANGED <<wvars, ivars, cvars>>

---------------------------------------------------------------------------
(* IRCLinesCodec.  A byte is a one-character string.  encode is lines      *)
(* 95-102.  decode (line 110) hands the buffer to the wrapped tokio_util   *)
(* LinesCodec, whose decode loop works on the three fields next_index,     *)
(* max_length and is_discarding; the loop is modelled as that library      *)
(* implements it.                                                          *)

CR == "\r"
LF == "\n"

\* The bytes of a line handed to encode, and the bytes a peer sends.
LineChars == {"a", "b"}
Bytes == {"a", CR, LF}

\* Results of decode: no call yet, Ok(None), Ok(Some(line)), the error, and
\* the panic of an out-of-range slice.
NoResult == [kind |-> "none", line |-> <<>>]
NoLineYet == [kind |-> "None", line |-> <<>>]
SomeLine(l) == [kind |-> "Some", line |-> l]
MaxLineLengthExceeded == [kind |-> "MaxLineLengthExceeded", line |-> <<>>]
SlicePanic == [kind |-> "panic", line |-> <<>>]

Min(a, b) == IF a <= b THEN a ELSE b

\* buf[from..to].iter().position(|b| *b == b'\n'): the 0-based offset, -1 for None.
Position(b, from, to) == Find(SubSeq(b, from + 1, to), LF)

\* A trailing '\r' of the line is dropped.
without_carriage_return(l) ==
    IF l # <<>> /\ l[Len(l)] = CR THEN SliceTo(l, Len(l) - 1) ELSE l

\* What one call of decode leaves behind.
Decoded(res, b, ni, disc) ==
    [res |-> res, buf |-> b, next_index |-> ni, is_discarding |-> disc]

\* Faulty variant of AfterDiscard: the newline that ends the discarded line
\* stays in the buffer.
AfterDiscardKeepsNewline(b, ni, offset) == SliceFrom(b, offset + ni)

\* buf.advance(offset + self.next_index + 1) of the discarding arm: the buffer
\* after the over-long line and its newline are dropped.
AfterDiscard(b, ni, offset) == SliceFrom(b, offset + ni + 1)

\* The loop of decode on buffer b with the fields ni (next_index), disc
\* (is_discarding) and maxlen (max_length).
RECURSIVE DecodeLoop(_, _, _, _)
DecodeLoop(b, ni, disc, maxlen) ==
    LET read_to == Min(maxlen + 1, Len(b))
        offset == Position(b, ni, read_to)
    IN  IF ni > read_to THEN Decoded(SlicePanic, b, ni, disc)
        ELSE IF disc /\ offset # -1
             THEN DecodeLoop(AfterDiscard(b, ni, offset), 0, FALSE, maxlen)
        ELSE IF disc
             THEN IF SliceFrom(b, read_to) = <<>>
                  THEN Decoded(NoLineYet, <<>>, 0, TRUE)
                  ELSE DecodeLoop(SliceFrom(b, read_to), 0, TRUE, maxlen)
        ELSE IF offset # -1
             THEN LET newline_index == offset + ni
                      line == SliceTo(SliceTo(b, newline_index + 1), newline_index)
                  IN  Decoded(SomeLine(without_carriage_return(line)),
                              SliceFrom(b, newline_index + 1), 0, FALSE)
        ELSE IF Len(b) > maxlen
             THEN Decoded(MaxLineLengthExceeded, b, ni, TRUE)
        ELSE Decoded(NoLineYet, b, read_to, FALSE)

CodecIdle ==
    /\ max_length = 0 /\ next_index = 0 /\ is_discarding = FALSE
    /\ buf = <<>> /\ dres = NoResult
    /\ stream = <<>> /\ fed = 0 /\ sent = <<>> /\ decoded = <<>> /\ too_long = 0

\* IRCLinesCodec::new_with_max_length(max_length) and an empty buffer.
InitCodecVars ==
    /\ max_length = MaxLength
    /\ next_index = 0
    /\ is_discarding = FALSE
    /\ buf = <<>>
    /\ dres = NoResult
    /\ stream \in Strs(Bytes, MaxStream)
    /\ fed = 0
    /\ sent = <<>>
    /\ decoded = <<>>
    /\ too_long = 0

\* encode(line, buf) on a new codec whose peer sends nothing: the buffer is
\* then read back by decode.
Encode ==
    /\ stream = <<>>
    /\ sent = <<>>
    /\ dres = NoResult
    /\ \E line \in Strs(LineChars, MaxLength + 1) :
         /\ buf' = buf \o line \o <<CR, LF>>
         /\ sent' = Append(sent, line)
    /\ UNCHANGED <<max_length, next_index, is_discarding, dres, stream, fed, decoded,
                   too_long>>
    /\ UNCHANGED <<wvars, ivars, mvars>>

\* The caller appends the next bytes of the peer, in a chunk of any size, to
\* the buffer it hands to decode.
Feed ==
    /\ fed < Len(stream)
    /\ \E k \in 1..(Len(stream) - fed) :
         /\ buf' = buf \o SubSeq(stream, fed + 1, fed + k)
         /\ fed' = fed + k
    /\ dres' = NoResult
    /\ UNCHANGED <<max_length, next_index, is_discarding, stream, sent, decoded, too_long>>
    /\ UNCHANGED <<wvars, ivars, mvars>>

\* decode(buf)
Decode ==
    /\ dres.kind # "panic"
    /\ LET d == DecodeLoop(buf, next_index, is_discarding, max_length)
       IN  /\ dres' = d.res
           /\ buf' = d.buf
           /\ next_index' = d.next_index
           /\ is_discarding' = d.is_discarding
           /\ decoded' = IF d.res.kind = "Some" THEN Append(decoded, d.res.line) ELSE decoded
           /\ too_long' = IF d.res = MaxLineLengthExceeded THEN too_long + 1 ELSE too_long
    /\ UNCHANGED <<max_length, stream, fed, sent>>
    /\ UNCHANGED <<wvars, ivars, mvars>>

---------------------------------------------------------------------------
(* Specifications: one per component.                                      *)

InitWild == InitWildVars /\ IdentIdle /\ ModesIdle /\ CodecIdle
NextWild == WildLoop \/ WildReturn
SpecWild == InitWild /\ [][NextWild]_vars

InitIdent == WildIdle /\ InitIdentVars /\ ModesIdle /\ CodecIdle
NextIdent ==
    \/ CallValidateUsername
    \/ CallValidateChannel
    \/ CallValidateSource
    \/ CallValidatePrefixedChannel
    \/ CallNormalizeSourcemask
    \/ CallNormalizeResult
    \/ CallValidateChannelToo
    \/ CallNormalizeToo
    \/ CallValidateNormalized
SpecIdent == InitIdent /\ [][NextIdent]_vars

InitModes == WildIdle /\ IdentIdle /\ InitModesVars /\ CodecIdle
NextModes == UserPair \/ ChanBeginPair \/ ChanChar \/ ChanEndPair \/ ModesFinish
SpecModes == InitModes /\ [][NextModes]_vars

InitCodec == WildIdle /\ IdentIdle /\ ModesIdle /\ InitCodecVars
NextCodec == Encode \/ Feed \/ Decode
SpecCodec == InitCodec /\ [][NextCodec]_vars

---------------------------------------------------------------------------
(* Claims about match_wildcard (SpecWild).                                 *)

\* C1: match_wildcard is total: for every pattern and subject the call
\* returns true or false and never aborts.
C1_Total == wpc = "done" => wres \in {"true", "false"}

\* C2: match_wildcard(pattern, subject) is true iff the whole subject
\* matches the pattern under glob semantics, i.e. it agrees with the
\* reference matcher Glob.
C2_AgreesWithGlob == wpc = "done" => wres = BoolStr(Glob(pattern, text))

\* C18: the empty pattern matches the empty subject and no other subject; a
\* non-empty pattern made solely of '*' characters matches every subject,
\* the empty one included.
C18_SpecialCases ==
    wpc = "done" =>
        /\ pattern = <<>> => wres = BoolStr(text = <<>>)
        /\ (pattern # <<>> /\ \A i \in 1..Len(pattern) : pattern[i] = "*") => wres = "true"

\* A pattern of two '*' has matched a non-empty subject.
C18_Witness ==
    /\ wpc = "done" /\ pattern = <<"*", "*">> /\ text # <<>> /\ wres = "true"

---------------------------------------------------------------------------
(* Claims about the identifier validators (SpecIdent).                     *)

\* C3: validate_username(s) succeeds iff s is non-empty, its first character
\* is neither '#' nor '&', and s contains none of '.', ':' and ','.
C3_UsernameIff ==
    id_fn = "validate_username" =>
        (id_res = "Ok" <=>
            /\ id_s # <<>>
            /\ id_s[1] \notin {"#", "&"}
            /\ \A i \in 1..Len(id_s) : id_s[i] \notin {".", ":", ","})

\* The characters the scan of validate_prefixed_channel skips.
Skipped == {"~", "@", "%", "+", "&"}

\* 1-based positions of the characters of s the scan does not skip.
StopPositions(s) == { k \in 1..Len(s) : s[k] \notin Skipped }

\* The position the scan stops at (there is one).
StopAt(s) == CHOOSE k \in StopPositions(s) : \A j \in StopPositions(s) : k <= j

\* C16: validate_prefixed_channel(s) succeeds iff s is non-empty, has neither
\* ':' nor ',', and the left-to-right scan that skips '~', '@', '%', '+' and '&'
\* stops either at a '#' followed by at least one more character or at another
\* character whose immediately preceding character is '&'.  A string of
\* skipped characters only, a string ending in the stopping '#' and a string
\* starting with '*' are rejected.
C16_PrefixedChannelIff ==
    id_fn = "validate_prefixed_channel" =>
        /\ id_res = "Ok" <=>
              /\ id_s # <<>>
              /\ \A i \in 1..Len(id_s) : id_s[i] \notin {":", ","}
              /\ StopPositions(id_s) # {}
              /\ LET k == StopAt(id_s)
                 IN  IF id_s[k] = "#" THEN k < Len(id_s)
                     ELSE k > 1 /\ id_s[k - 1] = "&"
        /\ StopPositions(id_s) = {} => id_res = "Err"
        /\ (StopPositions(id_s) # {} /\ StopAt(id_s) = Len(id_s) /\ id_s[Len(id_s)] = "#")
              => id_res = "Err"
        /\ (id_s # <<>> /\ id_s[1] = "*") => id_res = "Err"

\* "~&a" was accepted: the scan stopped at 'a', which follows '&'.
C16_Witness ==
    /\ id_fn = "validate_prefixed_channel"
    /\ id_s = <<"~", "&", "a">>
    /\ id_res = "Ok"

\* Number of occurrences of ch in s.
Count(s, ch) == Cardinality({ i \in 1..Len(s) : s[i] = ch })

\* Exactly one '!' that precedes exactly one '@'.
Canonical(s) ==
    /\ Count(s, "!") = 1
    /\ Count(s, "@") = 1
    /\ Find(s, "!") < Find(s, "@")

\* C17: normalize_sourcemask returns a mask of canonical shape (exactly one
\* '!' that precedes exactly one '@') unchanged, and it is idempotent:
\* applied to its own result it returns that result.
C17_NormalizeIdempotent ==
    /\ (id_fn = "normalize_sourcemask" /\ Canonical(id_s)) => id_res = id_s
    /\ id_fn = "normalize_sourcemask of result" => id_res = id_s

\* The result "a@!@*" of normalising "a@!", which is not canonical, was
\* normalised again.
C17_Witness ==
    /\ id_fn = "normalize_sourcemask of result"
    /\ id_s = <<"a", "@", "!", "@", "*">>
    /\ id_res = id_s

\* C19: validate_channel(s) succeeds iff s is non-empty, its first character
\* is '#' or '&', and s contains neither ':' nor ','.
C19_ChannelIff ==
    id_fn = "validate_channel" =>
        (id_res = "Ok" <=>
            /\ id_s # <<>>
            /\ id_s[1] \in {"#", "&"}
            /\ \A i \in 1..Len(id_s) : id_s[i] \notin {":", ","})

\* "&a," was refused for its ','.
C19_Witness ==
    /\ id_fn = "validate_channel"
    /\ id_s = <<"&", "a", ",">>
    /\ id_res = MsgChannel

\* C20: validate_source(s) is false if s contains ':'; otherwise it is true
\* unless s contains both '!' and '@' and the first '!' is at or after the
\* first '@'.
C20_SourceIff ==
    id_fn = "validate_source" =>
        LET colon == \E i \in 1..Len(id_s) : id_s[i] = ":"
            excls == { i \in 1..Len(id_s) : id_s[i] = "!" }
            ats == { i \in 1..Len(id_s) : id_s[i] = "@" }
            late == /\ excls # {} /\ ats # {}
                    /\ \E a \in ats : \A e \in excls : e >= a
        IN  id_res = BoolStr(~colon /\ ~late)

\* "@!" was refused: its '!' comes after its '@'.
C20_Witness ==
    /\ id_fn = "validate_source"
    /\ id_s = <<"@", "!">>
    /\ id_res = "false"

\* C22: normalize_sourcemask keeps a source valid: for a mask m that
\* validate_source accepts, validate_source accepts normalize_sourcemask(m),
\* and the normalised mask has a '!' and an '@' somewhere after its first '!'.
C22_NormalizeKeepsValid ==
    (id_fn = "validate_source, normalize_sourcemask, validate_source" /\ id_res[1] = "true") =>
        /\ id_res[3] = "true"
        /\ \E e \in 1..Len(id_res[2]) :
              /\ id_res[2][e] = "!"
              /\ \A j \in 1..(e - 1) : id_res[2][j] # "!"
              /\ \E a \in (e + 1)..Len(id_res[2]) : id_res[2][a] = "@"

\* The valid mask "a@a" was normalised to "a!*@a", which is valid.
C22_Witness ==
    /\ id_fn = "validate_source, normalize_sourcemask, validate_source"
    /\ id_s = <<"a", "@", "a">>
    /\ id_res = <<"true", <<"a", "!", "*", "@", "a">>, "true">>

\* C23: no string is accepted by both validate_username and validate_channel.
C23_UserOrChannel ==
    id_fn = "validate_username, validate_channel" =>
        ~(id_res[1] = "Ok" /\ id_res[2] = "Ok")

\* "#a" was refused as a username and accepted as a channel.
C23_Witness ==
    /\ id_fn = "validate_username, validate_channel"
    /\ id_s = <<"#", "a">>
    /\ id_res = <<MsgChannelPrefix, "Ok">>

---------------------------------------------------------------------------
(* Claims about validate_usermodes and validate_channelmodes (SpecModes).  *)

\* A step that is one call of the inner closure of validate_channelmodes;
\* last_c' is the character it handles.
CharStep == mpc = "chars" /\ ms_pos' = ms_pos + 1
\* Before the step an argument remains in the pair's list, and which.
Remaining == margs_it < Len(margs)
Arg == margs[margs_it + 1]
\* A step in which modes.iter() yields a pair.
PairBegins == mpc = "pairs" /\ pair_no' = pair_no + 1
\* The error kinds that carry a parameter index.
IdxKinds == {"WrongParameter", "UnknownUModeFlag", "UnknownMode"}

\* A decimal numeral, with or without a leading '+'.
IsNonNegInt(arg) ==
    LET d == IF arg # <<>> /\ arg[1] = "+" THEN Tail(arg) ELSE arg
    IN  d # <<>> /\ \A i \in 1..Len(d) : d[i] \in Digits

\* C4: 'l' and 'k' follow the last sign character of their own flag-string.
\* After '+' the letter takes exactly one argument and fails with "No
\* argument" when none remains ('l' also fails when the argument is no
\* non-negative integer); after '-' or before any sign character it takes
\* none and fails with "Unexpected argument" when one remains.
C4_ToggledFollowSign ==
    [][ (CharStep /\ last_c' \in {"l", "k"}) =>
          IF last_sign = "+"
          THEN IF Remaining
               THEN /\ margs_it' = margs_it + 1
                    /\ IF last_c' = "l" /\ ~IsNonNegInt(Arg)
                       THEN /\ mres'.kind = "InvalidModeParam"
                            /\ mres'.target = target
                            /\ mres'.modechar = "l"
                            /\ mres'.param = Arg
                            /\ mpc' = "done"
                       ELSE \/ mres' = Running /\ mpc' = "chars"
                            \/ /\ last_c' = "l"
                               /\ mres' = InvalidModeParam(target, "l", Arg,
                                              "number too large to fit in target type")
                               /\ mpc' = "done"
               ELSE /\ mres' = InvalidModeParam(target, last_c', <<>>, "No argument")
                    /\ mpc' = "done"
                    /\ margs_it' = margs_it
          ELSE IF Remaining
               THEN /\ mres' = InvalidModeParam(target, last_c', Arg, "Unexpected argument")
                    /\ mpc' = "done"
               ELSE /\ mres' = Running
                    /\ mpc' = "chars"
                    /\ margs_it' = margs_it
      ]_vars

\* "+?l" with one argument: the '+' still holds at the third character and
\* 'l' has taken the argument.
C4_Witness ==
    /\ mpc = "chars" /\ last_c = "l" /\ last_sign = "+"
    /\ ms_pos = 3 /\ margs_it = 1 /\ Len(margs) = 1 /\ mres = Running

\* C5: each of o, v, h, q, a takes exactly one argument whatever the sign:
\* none left fails with InvalidModeParam{target, letter, "", "No argument"},
\* an argument validate_username rejects fails with InvalidModeParam carrying
\* the letter, the argument and the validator's reason; else the scan goes on.
C5_UserLetters ==
    [][ (CharStep /\ last_c' \in UserLetters) =>
          IF ~Remaining
          THEN /\ mres' = InvalidModeParam(target, last_c', <<>>, "No argument")
               /\ mpc' = "done"
          ELSE /\ margs_it' = margs_it + 1
               /\ IF validate_username(Arg) # "Ok"
                  THEN /\ mres' = InvalidModeParam(target, last_c', Arg,
                                      ValidationErrorToString(validate_username(Arg)))
                       /\ mpc' = "done"
                  ELSE /\ mres' = Running
                       /\ mpc' = "chars"
      ]_vars

\* "-v" with the argument "x:" fails with the validator's reason.
C5_Witness ==
    /\ mpc = "done" /\ last_c = "v" /\ last_sign = "-"
    /\ mres = InvalidModeParam(target, "v", <<"x", ":">>,
                               ValidationErrorToString(MsgBadChars))

\* C6, as claimed: in both validators a pair with an empty flag-string fails
\* with MissingParameter carrying the current parameter index.
C6_EmptyIsMissingParameter ==
    [][ (PairBegins /\ ms_empty') =>
          /\ mpc' = "done"
          /\ mres'.kind = "MissingParameter"
          /\ mres'.idx = param_idx
      ]_vars

\* C6, amended: in both validators a pair with an empty flag-string fails
\* with WrongParameter(MODE, index), index being the current parameter index.
C6_EmptyIsWrongParameter ==
    [][ (PairBegins /\ ms_empty') =>
          /\ mpc' = "done"
          /\ mres' = WrongParameter("MODE", param_idx)
      ]_vars

\* The second pair of a channel MODE has an empty flag-string.
C6_Witness ==
    /\ vfn = "chan" /\ mpc = "done" /\ ms_empty /\ pair_no = 2
    /\ mres = WrongParameter("MODE", param_idx) /\ param_idx > 1

\* C7, as claimed: in validate_channelmodes the index advances per pair by
\* (arguments the flag-string consumed) + 1, so the index of an error in a
\* later pair is 1 + the sum over the earlier pairs of (consumed + 1).
C7_IndexCountsConsumed ==
    vfn = "chan" =>
        /\ param_idx = consumed_idx
        /\ mres.kind \in IdxKinds => mres.idx = consumed_idx

\* The 1-based position, in the original parameter list, of the flag-string
\* the validator is at: of the current pair's, or between pairs and after
\* success of the one that would come next.
FlagPosition ==
    IF mpc = "pairs" \/ mres = OkRes THEN seen_params + 1
    ELSE seen_params - Len(margs)

\* C7, amended: in validate_channelmodes the index advances per pair by
\* (arguments in the pair's list) + 1, so the index of an error in a later
\* pair is 1 + the sum over the earlier pairs of (arguments given + 1): the
\* position of the failing pair's flag-string in the parameter list.
C7_IndexCountsGiven ==
    vfn = "chan" =>
        /\ param_idx = FlagPosition
        /\ mres.kind \in IdxKinds => mres.idx = FlagPosition

\* An unknown letter in the second pair, after a first pair that was given
\* more arguments than its letters took.
C7_Witness ==
    /\ vfn = "chan" /\ pair_no = 2 /\ mres.kind = "UnknownMode"
    /\ mres.idx > consumed_idx

\* C8: the parameter index starts at 1, strictly increases from each pair
\* to the next, and every index carried by an error is at least 1 and at
\* most (number of parameters) + 1.
C8_IndexBounds ==
    /\ [](vfn # "none" =>
            /\ pair_no = 0 => param_idx = 1
            /\ param_idx >= 1
            /\ mres.kind \in IdxKinds =>
                   /\ 1 <= mres.idx
                   /\ mres.idx <= seen_params + 1
                   /\ pair_no = 1 => mres.idx = 1)
    /\ [][ /\ param_idx' >= param_idx
           /\ (mpc' = "pairs" /\ (mpc = "chars" \/ pair_no' # pair_no))
                  => param_idx' > param_idx
         ]_vars

\* The second pair of a user MODE has an unknown flag.
C8_Witness ==
    /\ vfn = "user" /\ pair_no = 2 /\ mres = UnknownUModeFlag(2)

\* C9: validation stops at the first failure: at most one closure call ever
\* fails, its error is the result, nothing changes after the result is
\* there, and without a failure the result is success.
C9_StopsAtFirstFailure ==
    /\ [](vfn # "none" =>
            /\ nfail <= 1
            /\ nfail = 1 => (mpc = "done" /\ mres = first_err
                             /\ mres.kind \notin {"Running", "Ok"})
            /\ (mpc = "done" /\ nfail = 0) => mres = OkRes
            /\ mpc # "done" => mres = Running)
    /\ [][ mpc = "done" => UNCHANGED mvars ]_vars

\* A failure in the first pair before the flag-string and the pairs are
\* at their bounds.
C9_Witness ==
    /\ vfn = "chan" /\ mpc = "done" /\ nfail = 1 /\ pair_no = 1
    /\ ms_pos = 1 /\ Len(margs) = 2 /\ mres.kind = "InvalidModeParam"

\* C10: each of b, e, I takes the next argument of its pair whatever it is,
\* so that an argument-taking letter after it gets the argument after that
\* one; with no argument left b, e and I do not fail.
C10_ListLetters ==
    [][ /\ (CharStep /\ last_c' \in ListLetters) =>
              /\ mres' = Running
              /\ mpc' = "chars"
              /\ margs_it' = IF Remaining THEN margs_it + 1 ELSE margs_it
        /\ (CharStep /\ last_c \in ListLetters /\ last_c' \in UserLetters
              /\ Remaining /\ validate_username(Arg) # "Ok") =>
              /\ margs_it >= 1
              /\ mres'.param = margs[margs_it + 1]
      ]_vars

\* Two letters, two arguments: the first letter took "x:" unchecked, 'o'
\* got the second argument and rejected it.
C10_Witness ==
    /\ mpc = "done" /\ ms_pos = 2 /\ last_c = "o" /\ margs_it = 2
    /\ margs = << <<"x", ":">>, <<"x", ":">> >>
    /\ mres.kind = "InvalidModeParam" /\ mres.param = margs[2]

\* C11: validate_usermodes succeeds iff every pair has a non-empty flag-string
\* made only of characters of {+,-,i,o,O,r,w} and an empty argument list.  The
\* first pair that is not so ends the call: with a character outside the
\* alphabet the result is UnknownUModeFlag(index), otherwise (the argument
\* list is non-empty or the flag-string is empty) WrongParameter(MODE, index),
\* where index is the 1-based position of that pair.  As a state property:
\* the call goes on past a pair, and returns Ok at the end, exactly when the
\* pair is well-formed.
C11_UserModes ==
    vfn = "user" =>
        LET wellformed == ~ms_empty /\ ~ms_foreign /\ margs = <<>>
        IN  /\ pair_no = 0 => mres = (IF mpc = "done" THEN OkRes ELSE Running)
            /\ (pair_no >= 1 /\ wellformed) =>
                    /\ nfail = 0
                    /\ mres = (IF mpc = "done" THEN OkRes ELSE Running)
            /\ (pair_no >= 1 /\ ~wellformed) =>
                    /\ mpc = "done"
                    /\ nfail = 1
                    /\ mres = IF ms_foreign THEN UnknownUModeFlag(pair_no)
                                            ELSE WrongParameter("MODE", pair_no)
            /\ (mpc = "done" /\ mres = OkRes) <=>
                    (mpc = "done" /\ nfail = 0 /\ (pair_no >= 1 => wellformed))

\* A second pair with a foreign character and an argument was refused with
\* UnknownUModeFlag(2).
C11_Witness ==
    /\ vfn = "user" /\ mpc = "done" /\ pair_no = 2
    /\ ms_foreign /\ margs # <<>>
    /\ mres = UnknownUModeFlag(2)

\* C21: validate_channelmodes never fails because a pair has more arguments
\* than its letters take.  While no letter and no empty flag-string has
\* failed the result is not an error, the exhausted call returns Ok, and
\* between pairs the index stands behind all arguments given so far, taken or
\* not.  Every failure comes from an empty flag-string or from a letter, never
\* from a sign, a list letter or a flag letter; and an argument is refused
\* for being there ("Unexpected argument") only by 'l' and 'k' when the sign
\* in effect is not '+'.
C21_SurplusSkipped ==
    vfn = "chan" =>
        /\ nfail = 0 =>
              /\ mres = (IF mpc = "done" THEN OkRes ELSE Running)
              /\ mpc \in {"pairs", "done"} =>
                    (param_idx = seen_params + 1 /\ consumed_idx <= param_idx)
        /\ nfail > 0 =>
              /\ mpc = "done" /\ nfail = 1 /\ mres = first_err
              /\ IF mres.kind = "WrongParameter" THEN ms_empty /\ ms_pos = 0
                 ELSE /\ mres.kind \in {"UnknownMode", "InvalidModeParam"}
                      /\ last_c = mres.modechar
                      /\ last_c \notin (SignChars \cup ListLetters \cup FlagLetters)
        /\ mres.description = "Unexpected argument" =>
              /\ last_c \in {"l", "k"}
              /\ last_sign # "+"
              /\ margs_it >= 1 /\ mres.param = margs[margs_it]

\* The call returned Ok although some pair had more arguments than its
\* letters took.
C21_Witness ==
    /\ vfn = "chan" /\ mpc = "done" /\ mres = OkRes
    /\ consumed_idx < param_idx

---------------------------------------------------------------------------
(* Claims about IRCLinesCodec (SpecCodec).                                 *)

\* C12: a line without CR or LF and of length at most max_length (exactly
\* max_length included), encoded into an empty buffer and then decoded, comes
\* back as the same line and the buffer is left empty.
C12_RoundTrip ==
    (sent # <<>> /\ Len(sent[1]) <= max_length /\ dres # NoResult) =>
        /\ decoded = sent
        /\ buf = <<>>
        /\ too_long = 0

\* A step that is one call of decode.
DecodeStep == fed' = fed /\ sent' = sent

\* The buffer starts with n bytes that are neither CR nor LF, followed by the
\* terminator term.
StartsWithLine(b, n, term) ==
    /\ Len(b) >= n + Len(term)
    /\ \A i \in 1..n : b[i] \notin {CR, LF}
    /\ SubSeq(b, n + 1, n + Len(term)) = term

\* C13: on a codec that has refused no line, decode of a buffer that starts
\* with a line of exactly max_length bytes and its terminator, LF or CR LF,
\* returns that line; decode of max_length + 1 or more buffered bytes with no
\* LF among them returns the line-too-long error; decode of max_length or
\* fewer bytes with no LF among them returns "no line yet".
C13_Boundary ==
    [][(DecodeStep /\ too_long = 0) =>
        /\ \A term \in {<<LF>>, <<CR, LF>>} :
              StartsWithLine(buf, max_length, term) =>
                  dres' = SomeLine(SubSeq(buf, 1, max_length))
        /\ (Len(buf) > max_length /\ ~Contains(buf, LF)) => dres' = MaxLineLengthExceeded
        /\ (Len(buf) <= max_length /\ ~Contains(buf, LF)) =>
              (dres' = NoLineYet /\ buf' = buf)
      ]_vars

\* The lines of a byte string, as text: the bytes before each LF.
RECURSIVE Segments(_)
Segments(b) ==
    LET p == Find(b, LF)
    IN  IF p = -1 THEN <<>> ELSE <<SliceTo(b, p)>> \o Segments(SliceFrom(b, p + 1))

\* The bytes after the last LF.
RECURSIVE Unfinished(_)
Unfinished(b) ==
    LET p == Find(b, LF)
    IN  IF p = -1 THEN b ELSE Unfinished(SliceFrom(b, p + 1))

\* A segment without the CR of its CR LF terminator.
LineOf(seg) == IF seg # <<>> /\ seg[Len(seg)] = CR THEN SubSeq(seg, 1, Len(seg) - 1) ELSE seg

LinesOf(b) == [i \in 1..Len(Segments(b)) |-> LineOf(Segments(b)[i])]

\* A line of at most n bytes, none of them CR.
GoodLine(l, n) == Len(l) <= n /\ \A i \in 1..Len(l) : l[i] # CR

\* The stream is made of lines within the maximum length, each terminated by
\* LF or CR LF, the last one possibly not yet terminated.
StreamOfLines ==
    /\ \A i \in 1..Len(LinesOf(stream)) : GoodLine(LinesOf(stream)[i], max_length)
    /\ GoodLine(LineOf(Unfinished(stream)), max_length)

\* The bytes of the stream that decode has taken out of the buffer, whether
\* it returned them as lines or dropped them.
Consumed == SubSeq(stream, 1, fed - Len(buf))

\* C14: for a stream of lines within the maximum length, however it is cut
\* into chunks, decode returns the lines of the stream in order, each once and
\* without its terminator: what it has returned are the lines of the bytes it
\* has taken, it takes whole lines only, it never refuses a line, and it
\* returns "no line yet" only when no whole line is left in the buffer, which
\* then still holds the partial line.
C14_ChunkIndependent ==
    (sent = <<>> /\ StreamOfLines) =>
        /\ too_long = 0
        /\ buf = SubSeq(stream, fed - Len(buf) + 1, fed)
        /\ Unfinished(Consumed) = <<>>
        /\ decoded = LinesOf(Consumed)
        /\ dres.kind \in {"none", "None", "Some"}
        /\ dres.kind = "Some" => dres.line = decoded[Len(decoded)]
        /\ dres.kind = "None" => (~Contains(buf, LF) /\ buf = Unfinished(SubSeq(stream, 1, fed)))

\* C15: once decode has returned the line-too-long error, no later call of
\* decode on the codec returns a line.
C15_TooLongIsFinal == too_long > 0 => dres.kind # "Some"

\* The lines of b that are not over-long: a line is over-long when more than
\* n bytes stand before its LF.
RECURSIVE Kept(_, _)
Kept(segs, n) ==
    IF segs = <<>> THEN <<>>
    ELSE IF Len(Head(segs)) <= n THEN <<LineOf(Head(segs))>> \o Kept(Tail(segs), n)
    ELSE Kept(Tail(segs), n)

\* C15 as the code has it: the line-too-long error is returned once for an
\* over-long line and no piece of that line is ever returned, but the codec
\* goes on: it drops the bytes up to and including the next LF and then
\* returns the lines that follow.  At every moment the lines returned are the
\* lines, over-long ones left out, of the whole lines that left the buffer.
C15_TooLongIsSkipped ==
    sent = <<>> =>
        /\ buf = SubSeq(stream, fed - Len(buf) + 1, fed)
        /\ decoded = Kept(Segments(Consumed), max_length)
        /\ too_long <= Len(Segments(stream)) + 1 - Len(Kept(Segments(stream), max_length))
        /\ (dres.kind = "None" /\ ~is_discarding) => ~Contains(buf, LF)

\* After an over-long line was refused, decode returned the line behind it.
C15_Witness ==
    /\ too_long = 1
    /\ dres.kind = "Some"
    /\ Len(Segments(stream)) = 2
    /\ Len(Segments(stream)[1]) > max_length
    /\ decoded = << LineOf(Segments(stream)[2]) >>

====
